---------------------------- MODULE Spec2Model ----------------------------
(***************************************************************************)
(* Model of the Lightning classifier of cltv-scan                          *)
(* (src/src/lightning/detector.rs, src/src/lightning/types.rs).            *)
(*                                                                         *)
(* Representation.                                                         *)
(*  - A u32 (locktime, sequence) is the record [hi, lo]: hi is its upper   *)
(*    byte (bits 24..31) and lo its lower 24 bits, so that x >> 24 and     *)
(*    x & 0x00FFFFFF are computed on values above 2^31 as well.            *)
(*  - A u64 is the record [l2, l1, l0] of base-2^24 limbs (l2 holds the    *)
(*    upper 16 bits).                                                      *)
(*  - A string is the sequence of its characters; a character is a         *)
(*    one-character string, except "U+00E9", which stands for the          *)
(*    two-byte UTF-8 character e-acute.                                    *)
(*  - Option<T> is [some |-> FALSE] or [some |-> TRUE, val |-> v].         *)
(***************************************************************************)
EXTENDS Integers, Sequences, FiniteSets, TLC

VARIABLES tx, result, prev, EMBEDDED_FLORESTA, node, calls, target

clientVars == <<EMBEDDED_FLORESTA, node, calls, target>>

vars == <<tx, result, prev, EMBEDDED_FLORESTA, node, calls, target>>

(***************************************************************************)
(* Fixed-width integers                                                    *)
(***************************************************************************)
Pow2_16 == 65536

U32(h, l) == [hi |-> h, lo |-> l]

\* x >> 24 on a u32
Shr24(x) == x.hi

\* x & 0x00FFFFFF on a u32
Low24(x) == x.lo

\* a < b on u32
U32Lt(a, b) == \/ a.hi < b.hi
               \/ a.hi = b.hi /\ a.lo < b.lo

U32Zero == U32(0, 0)

\* 500_000_000 = 0x1DCD6500
LOCKTIME_THRESHOLD == U32(29, 13460736)

\* (v as u64) for a v below 2^24
AsU64(v) == [l2 |-> 0, l1 |-> 0, l0 |-> v]

\* x << 24 on a u64: the limbs move up one place, the bits above 64 are lost
Shl24(x) == [l2 |-> x.l1 % Pow2_16, l1 |-> x.l0, l0 |-> 0]

RECURSIVE BitOr(_, _)
BitOr(a, b) ==
    IF a = 0 THEN b
    ELSE IF b = 0 THEN a
    ELSE 2 * BitOr(a \div 2, b \div 2) + (IF a % 2 = 1 \/ b % 2 = 1 THEN 1 ELSE 0)

\* x | y on u64
U64Or(x, y) == [l2 |-> BitOr(x.l2, y.l2), l1 |-> BitOr(x.l1, y.l1), l0 |-> BitOr(x.l0, y.l0)]

(***************************************************************************)
(* Option and the enums of types.rs                                        *)
(***************************************************************************)
None == [some |-> FALSE]
Some(v) == [some |-> TRUE, val |-> v]

Confidences == <<"None", "Possible", "HighlyLikely">>

\* the derived Ord of Confidence: declaration order
Rank(c) == CHOOSE i \in 1..Len(Confidences) : Confidences[i] = c

ConfGe(a, b) == Rank(a) >= Rank(b)

LightningTxTypes == {"Commitment", "HtlcTimeout", "HtlcSuccess"}

CommitmentSignalsDefault ==
    [locktime_match |-> FALSE, sequence_match |-> FALSE,
     has_anchor_outputs |-> FALSE, anchor_output_count |-> 0]

HtlcSignalsDefault ==
    [locktime_value |-> U32Zero, has_preimage |-> FALSE, preimage |-> None,
     script_has_cltv |-> FALSE, script_has_csv |-> FALSE]

LightningParamsDefault ==
    [commitment_number |-> None, htlc_output_count |-> None, cltv_expiry |-> None,
     csv_delays |-> <<>>, preimage_revealed |-> FALSE, preimage |-> None]

(***************************************************************************)
(* Strings                                                                 *)
(***************************************************************************)
HexDigits == {"0", "1", "2", "3", "4", "5", "6", "7", "8", "9",
              "a", "b", "c", "d", "e", "f", "A", "B", "C", "D", "E", "F"}

DecDigits == <<"0", "1", "2", "3", "4", "5", "6", "7", "8", "9">>

WhiteSpace == {" ", "\t", "\n"}

\* bytes of the UTF-8 encoding of a character
Utf8Len(c) == IF c = "U+00E9" THEN 2 ELSE 1

\* str::len: the length in bytes, summed over the characters i..j by halves
RECURSIVE StrLenFrom(_, _, _)
StrLenFrom(s, i, j) ==
    IF i > j THEN 0
    ELSE IF i = j THEN Utf8Len(s[i])
    ELSE StrLenFrom(s, i, (i + j) \div 2) + StrLenFrom(s, (i + j) \div 2 + 1, j)

StrLen(s) == StrLenFrom(s, 1, Len(s))

\* str::contains
Contains(s, pat) ==
    \E i \in 1..(Len(s) - Len(pat) + 1) : \A j \in 1..Len(pat) : s[i + j - 1] = pat[j]

\* str::split_whitespace: the maximal runs of non-whitespace characters
\* one step per item: from index i, skip the whitespace, then take the run up to the
\* next whitespace or the end
RECURSIVE SplitFrom(_, _, _)
SplitFrom(s, i, acc) ==
    IF \A k \in i..Len(s) : s[k] \in WhiteSpace THEN acc
    ELSE LET start == CHOOSE a \in i..Len(s) :
                         /\ s[a] \notin WhiteSpace
                         /\ \A k \in i..(a - 1) : s[k] \in WhiteSpace
             end == CHOOSE b \in start..Len(s) :
                       /\ \A k \in start..b : s[k] \notin WhiteSpace
                       /\ b = Len(s) \/ s[b + 1] \in WhiteSpace
         IN  SplitFrom(s, end + 1, Append(acc, SubSeq(s, start, end)))

SplitWhitespace(s) == SplitFrom(s, 1, <<>>)

DigitVal(c) == (CHOOSE i \in 1..Len(DecDigits) : DecDigits[i] = c) - 1

IsDecDigit(c) == \E i \in 1..Len(DecDigits) : DecDigits[i] = c

\* the digits of a u16 accumulated left to right; overflow is an error
RECURSIVE ParseDigits(_, _, _)
ParseDigits(s, i, acc) ==
    IF i > Len(s) THEN Some(acc)
    ELSE IF ~IsDecDigit(s[i]) THEN None
    ELSE IF acc * 10 + DigitVal(s[i]) >= Pow2_16 THEN None
    ELSE ParseDigits(s, i + 1, acc * 10 + DigitVal(s[i]))

\* str::parse::<u16>: an optional "+", then one or more decimal digits
ParseU16(s) ==
    LET digits == IF s # <<>> /\ Head(s) = "+" THEN Tail(s) ELSE s
    IN  IF digits = <<>> THEN None ELSE ParseDigits(digits, 1, 0)

(***************************************************************************)
(* detector.rs                                                             *)
(***************************************************************************)
ANCHOR_VALUE == 330

V0_P2WSH == "v0_p2wsh"

OP_CHECKLOCKTIMEVERIFY ==
    <<"O", "P", "_", "C", "H", "E", "C", "K", "L", "O", "C", "K", "T", "I", "M", "E",
      "V", "E", "R", "I", "F", "Y">>
OP_CLTV == <<"O", "P", "_", "C", "L", "T", "V">>
OP_CHECKSEQUENCEVERIFY ==
    <<"O", "P", "_", "C", "H", "E", "C", "K", "S", "E", "Q", "U", "E", "N", "C", "E",
      "V", "E", "R", "I", "F", "Y">>
OP_CSV == <<"O", "P", "_", "C", "S", "V">>

\* a variant that looks at the first input only
any_coinbase_first_only(vin) == vin # <<>> /\ vin[1].is_coinbase

\* tx.vin.iter().any(|v| v.is_coinbase)
any_coinbase(vin) == \E i \in 1..Len(vin) : vin[i].is_coinbase

not_lightning ==
    [tx_type |-> None, confidence |-> "None",
     commitment_signals |-> CommitmentSignalsDefault,
     htlc_signals |-> HtlcSignalsDefault,
     params |-> LightningParamsDefault]

\* a variant that compares the upper byte with >=
is_lightning_locktime_at_least(locktime) == Shr24(locktime) >= 32

is_lightning_locktime(locktime) == Shr24(locktime) = 32

is_lightning_sequence(sequence) == Shr24(sequence) = 128

\* a variant that counts only the P2WSH outputs of 330 satoshis
detect_commitment_signals_p2wsh_anchors(t) ==
    LET locktime_match == is_lightning_locktime(t.locktime)
        sequence_match == \E i \in 1..Len(t.vin) : is_lightning_sequence(t.vin[i].sequence)
        anchor_output_count ==
            Cardinality({i \in 1..Len(t.vout) :
                            /\ t.vout[i].value = ANCHOR_VALUE
                            /\ t.vout[i].scriptpubkey_type = V0_P2WSH})
    IN  [locktime_match |-> locktime_match,
         sequence_match |-> sequence_match,
         has_anchor_outputs |-> anchor_output_count > 0,
         anchor_output_count |-> anchor_output_count]


detect_commitment_signals(t) ==
    LET locktime_match == is_lightning_locktime(t.locktime)
        sequence_match == \E i \in 1..Len(t.vin) : is_lightning_sequence(t.vin[i].sequence)
        anchor_output_count ==
            Cardinality({i \in 1..Len(t.vout) : t.vout[i].value = ANCHOR_VALUE})
    IN  [locktime_match |-> locktime_match,
         sequence_match |-> sequence_match,
         has_anchor_outputs |-> anchor_output_count > 0,
         anchor_output_count |-> anchor_output_count]

commitment_score(signals) ==
    (IF signals.locktime_match THEN 1 ELSE 0)
    + (IF signals.sequence_match THEN 1 ELSE 0)
    + (IF signals.has_anchor_outputs THEN 1 ELSE 0)

\* a variant in which two signals are not yet enough for HighlyLikely
commitment_confidence_two_possible(signals) ==
    LET score == commitment_score(signals)
    IN  CASE score = 0 -> "None"
          [] score = 1 -> "Possible"
          [] score = 2 -> "Possible"
          [] OTHER -> "HighlyLikely"

\* a variant in which the third signal falls back to Possible
commitment_confidence_three_possible(signals) ==
    LET score == commitment_score(signals)
    IN  CASE score = 0 -> "None"
          [] score = 1 -> "Possible"
          [] score = 2 -> "HighlyLikely"
          [] OTHER -> "Possible"

commitment_confidence(signals) ==
    LET score == commitment_score(signals)
    IN  CASE score = 0 -> "None"
          [] score = 1 -> "Possible"
          [] OTHER -> "HighlyLikely"

\* the extraction of a CSV delay list from the witness scripts, in vin order
\* a variant that keeps one copy of each delay
RECURSIVE CsvDelaysOfTokens_dedup(_, _, _)
CsvDelaysOfTokens_dedup(tokens, i, delays) ==
    IF i > Len(tokens) THEN delays
    ELSE IF (tokens[i] = OP_CHECKSEQUENCEVERIFY \/ tokens[i] = OP_CSV) /\ i > 1
         THEN LET val == ParseU16(tokens[i - 1])
              IN  CsvDelaysOfTokens_dedup(tokens, i + 1,
                                    IF val.some /\ ~\E k \in 1..Len(delays) : delays[k] = val.val
                                    THEN Append(delays, val.val) ELSE delays)
         ELSE CsvDelaysOfTokens_dedup(tokens, i + 1, delays)


RECURSIVE CsvDelaysOfTokens(_, _, _)
CsvDelaysOfTokens(tokens, i, delays) ==
    IF i > Len(tokens) THEN delays
    ELSE IF (tokens[i] = OP_CHECKSEQUENCEVERIFY \/ tokens[i] = OP_CSV) /\ i > 1
         THEN LET val == ParseU16(tokens[i - 1])
              IN  CsvDelaysOfTokens(tokens, i + 1,
                                    IF val.some THEN Append(delays, val.val) ELSE delays)
         ELSE CsvDelaysOfTokens(tokens, i + 1, delays)

RECURSIVE CsvDelaysFrom(_, _, _)
CsvDelaysFrom(vin, k, delays) ==
    IF k > Len(vin) THEN delays
    ELSE IF vin[k].inner_witnessscript_asm.some
         THEN CsvDelaysFrom(vin, k + 1,
                  CsvDelaysOfTokens(SplitWhitespace(vin[k].inner_witnessscript_asm.val),
                                    1, delays))
         ELSE CsvDelaysFrom(vin, k + 1, delays)

extract_csv_delays_from_inputs(t) == CsvDelaysFrom(t.vin, 1, <<>>)

\* the first input, in vin order, whose sequence has the Lightning pattern
\* a variant that keeps the last matching input
RECURSIVE FindLightningInput_last(_, _)
FindLightningInput_last(vin, i) ==
    IF i > Len(vin) THEN None
    ELSE LET rest == FindLightningInput_last(vin, i + 1)
         IN  IF rest.some THEN rest
             ELSE IF is_lightning_sequence(vin[i].sequence) THEN Some(vin[i])
             ELSE None

RECURSIVE FindLightningInput(_, _)
FindLightningInput(vin, i) ==
    IF i > Len(vin) THEN None
    ELSE IF is_lightning_sequence(vin[i].sequence) THEN Some(vin[i])
    ELSE FindLightningInput(vin, i + 1)

\* a variant that leaves out the shift of the sequence bits
commitment_number_unshifted(t, signals) ==
    IF signals.locktime_match /\ signals.sequence_match
    THEN LET locktime_lower == AsU64(Low24(t.locktime))
             found == FindLightningInput(t.vin, 1)
             seq_lower == IF found.some
                          THEN AsU64(Low24(found.val.sequence))
                          ELSE AsU64(0)
         IN  Some(U64Or(seq_lower, locktime_lower))
    ELSE None

commitment_number(t, signals) ==
    IF signals.locktime_match /\ signals.sequence_match
    THEN LET locktime_lower == AsU64(Low24(t.locktime))
             found == FindLightningInput(t.vin, 1)
             seq_lower == IF found.some
                          THEN AsU64(Low24(found.val.sequence))
                          ELSE AsU64(0)
         IN  Some(U64Or(Shl24(seq_lower), locktime_lower))
    ELSE None

\* a variant that subtracts without saturating
SaturatingSub_plain(a, b) == a - b


\* usize::saturating_sub
SaturatingSub(a, b) == IF a >= b THEN a - b ELSE 0

extract_commitment_params(t, signals) ==
    LET htlc_outputs ==
            Cardinality({i \in 1..Len(t.vout) :
                            /\ t.vout[i].scriptpubkey_type = V0_P2WSH
                            /\ t.vout[i].value # ANCHOR_VALUE})
        htlc_output_count == SaturatingSub(htlc_outputs, 1)
        csv_delays == extract_csv_delays_from_inputs(t)
    IN  [LightningParamsDefault EXCEPT
            !.commitment_number = commitment_number(t, signals),
            !.htlc_output_count = Some(htlc_output_count),
            !.csv_delays = csv_delays]

is_ascii_hexdigit(c) == c \in HexDigits

\* a variant that accepts every ASCII letter and digit
is_valid_hex_alphanumeric(s) == \A i \in 1..Len(s) : Utf8Len(s[i]) = 1

is_valid_hex(s) == \A i \in 1..Len(s) : is_ascii_hexdigit(s[i])

\* elem.len() == 64 && is_valid_hex(elem)
is_preimage_elem(elem) == StrLen(elem) = 64 /\ is_valid_hex(elem)

\* the inner loop over one witness stack: the first matching element, then break
RECURSIVE FirstPreimageFrom(_, _)
FirstPreimageFrom(witness, j) ==
    IF j > Len(witness) THEN None
    ELSE IF is_preimage_elem(witness[j]) THEN Some(witness[j])
    ELSE FirstPreimageFrom(witness, j + 1)

FirstPreimageIn(witness) == FirstPreimageFrom(witness, 1)

asm_has_cltv(asm) == Contains(asm, OP_CHECKLOCKTIMEVERIFY) \/ Contains(asm, OP_CLTV)

asm_has_csv(asm) == Contains(asm, OP_CHECKSEQUENCEVERIFY) \/ Contains(asm, OP_CSV)

\* the loop over tx.vin; acc holds the four mutable locals
RECURSIVE HtlcScan(_, _, _)
HtlcScan(vin, k, acc) ==
    IF k > Len(vin) THEN acc
    ELSE LET found == IF vin[k].witness.some THEN FirstPreimageIn(vin[k].witness.val)
                      ELSE None
             asm == vin[k].inner_witnessscript_asm
             acc1 == IF found.some
                     THEN [acc EXCEPT !.has_preimage = TRUE, !.preimage = found]
                     ELSE acc
             acc2 == IF asm.some /\ asm_has_cltv(asm.val)
                     THEN [acc1 EXCEPT !.script_has_cltv = TRUE]
                     ELSE acc1
             acc3 == IF asm.some /\ asm_has_csv(asm.val)
                     THEN [acc2 EXCEPT !.script_has_csv = TRUE]
                     ELSE acc2
         IN  HtlcScan(vin, k + 1, acc3)

\* a variant that reports the lower 24 bits of the locktime
detect_htlc_signals_low_locktime(t) ==
    LET acc == HtlcScan(t.vin, 1,
                        [has_preimage |-> FALSE, preimage |-> None,
                         script_has_cltv |-> FALSE, script_has_csv |-> FALSE])
    IN  [locktime_value |-> U32(0, Low24(t.locktime)),
         has_preimage |-> acc.has_preimage,
         preimage |-> acc.preimage,
         script_has_cltv |-> acc.script_has_cltv,
         script_has_csv |-> acc.script_has_csv]


detect_htlc_signals(t) ==
    LET acc == HtlcScan(t.vin, 1,
                        [has_preimage |-> FALSE, preimage |-> None,
                         script_has_cltv |-> FALSE, script_has_csv |-> FALSE])
    IN  [locktime_value |-> t.locktime,
         has_preimage |-> acc.has_preimage,
         preimage |-> acc.preimage,
         script_has_cltv |-> acc.script_has_cltv,
         script_has_csv |-> acc.script_has_csv]

\* a variant that accepts locktime 0
is_realistic_block_height_with_zero(locktime) ==
    /\ U32Lt(locktime, LOCKTIME_THRESHOLD)
    /\ Shr24(locktime) # 32

is_realistic_block_height(locktime) ==
    /\ U32Lt(U32Zero, locktime)
    /\ U32Lt(locktime, LOCKTIME_THRESHOLD)
    /\ Shr24(locktime) # 32

\* a variant whose catch-all branch reports the locktime as expiry in every case
classify_htlc_always_expiry(t, signals) ==
    LET has_htlc_script == signals.script_has_cltv \/ signals.script_has_csv
        csv_delays == extract_csv_delays_from_inputs(t)
    IN  IF ~has_htlc_script THEN None
        ELSE IF signals.has_preimage /\ t.locktime = U32Zero
        THEN Some([htlc_type |-> "HtlcSuccess", confidence |-> "HighlyLikely",
                   params |-> [LightningParamsDefault EXCEPT
                                  !.preimage_revealed = TRUE,
                                  !.preimage = signals.preimage,
                                  !.csv_delays = csv_delays]])
        ELSE IF ~signals.has_preimage /\ is_realistic_block_height(t.locktime)
        THEN Some([htlc_type |-> "HtlcTimeout", confidence |-> "HighlyLikely",
                   params |-> [LightningParamsDefault EXCEPT
                                  !.cltv_expiry = Some(t.locktime),
                                  !.csv_delays = csv_delays]])
        ELSE IF has_htlc_script
        THEN Some([htlc_type |-> "HtlcTimeout", confidence |-> "Possible",
                   params |-> [LightningParamsDefault EXCEPT
                                  !.cltv_expiry = Some(t.locktime),
                                  !.csv_delays = csv_delays]])
        ELSE None

\* a variant whose catch-all branch carries no confidence
classify_htlc_catch_all_none(t, signals) ==
    LET has_htlc_script == signals.script_has_cltv \/ signals.script_has_csv
        csv_delays == extract_csv_delays_from_inputs(t)
    IN  IF ~has_htlc_script THEN None
        ELSE IF signals.has_preimage /\ t.locktime = U32Zero
        THEN Some([htlc_type |-> "HtlcSuccess", confidence |-> "HighlyLikely",
                   params |-> [LightningParamsDefault EXCEPT
                                  !.preimage_revealed = TRUE,
                                  !.preimage = signals.preimage,
                                  !.csv_delays = csv_delays]])
        ELSE IF ~signals.has_preimage /\ is_realistic_block_height(t.locktime)
        THEN Some([htlc_type |-> "HtlcTimeout", confidence |-> "HighlyLikely",
                   params |-> [LightningParamsDefault EXCEPT
                                  !.cltv_expiry = Some(t.locktime),
                                  !.csv_delays = csv_delays]])
        ELSE IF has_htlc_script
        THEN Some([htlc_type |-> "HtlcTimeout", confidence |-> "None",
                   params |-> [LightningParamsDefault EXCEPT
                                  !.cltv_expiry = IF is_realistic_block_height(t.locktime)
                                                  THEN Some(t.locktime) ELSE None,
                                  !.csv_delays = csv_delays]])
        ELSE None

\* Option<(LightningTxType, Confidence, LightningParams)>
classify_htlc(t, signals) ==
    LET has_htlc_script == signals.script_has_cltv \/ signals.script_has_csv
        csv_delays == extract_csv_delays_from_inputs(t)
    IN  IF ~has_htlc_script THEN None
        ELSE IF signals.has_preimage /\ t.locktime = U32Zero
        THEN Some([htlc_type |-> "HtlcSuccess", confidence |-> "HighlyLikely",
                   params |-> [LightningParamsDefault EXCEPT
                                  !.preimage_revealed = TRUE,
                                  !.preimage = signals.preimage,
                                  !.csv_delays = csv_delays]])
        ELSE IF ~signals.has_preimage /\ is_realistic_block_height(t.locktime)
        THEN Some([htlc_type |-> "HtlcTimeout", confidence |-> "HighlyLikely",
                   params |-> [LightningParamsDefault EXCEPT
                                  !.cltv_expiry = Some(t.locktime),
                                  !.csv_delays = csv_delays]])
        ELSE IF has_htlc_script
        THEN Some([htlc_type |-> "HtlcTimeout", confidence |-> "Possible",
                   params |-> [LightningParamsDefault EXCEPT
                                  !.cltv_expiry = IF is_realistic_block_height(t.locktime)
                                                  THEN Some(t.locktime) ELSE None,
                                  !.csv_delays = csv_delays]])
        ELSE None

\* a variant that asks for HighlyLikely before it reports a commitment
is_commitment_highly_likely_only(confidence) == ConfGe(confidence, "HighlyLikely")

\* a variant that accepts every confidence
is_commitment_any(confidence) == ConfGe(confidence, "None")

\* commitment_confidence >= Confidence::Possible
is_commitment(confidence) == ConfGe(confidence, "Possible")

classify_lightning(t) ==
    IF any_coinbase(t.vin) THEN not_lightning
    ELSE LET commitment_signals == detect_commitment_signals(t)
             htlc_signals == detect_htlc_signals(t)
             confidence == commitment_confidence(commitment_signals)
             htlc == classify_htlc(t, htlc_signals)
         IN  IF is_commitment(confidence)
             THEN [tx_type |-> Some("Commitment"),
                   confidence |-> confidence,
                   commitment_signals |-> commitment_signals,
                   htlc_signals |-> htlc_signals,
                   params |-> extract_commitment_params(t, commitment_signals)]
             ELSE IF htlc.some
             THEN [tx_type |-> Some(htlc.val.htlc_type),
                   confidence |-> htlc.val.confidence,
                   commitment_signals |-> commitment_signals,
                   htlc_signals |-> htlc_signals,
                   params |-> htlc.val.params]
             ELSE [tx_type |-> None,
                   confidence |-> "None",
                   commitment_signals |-> commitment_signals,
                   htlc_signals |-> htlc_signals,
                   params |-> LightningParamsDefault]

(***************************************************************************)
(* output.rs                                                               *)
(***************************************************************************)
\* the line print_lightning_classification writes for the type, in pieces
lightning_line(lc) ==
    IF ~lc.tx_type.some THEN <<"Lightning: not identified">>
    ELSE LET type_str == CASE lc.tx_type.val = "Commitment" -> "Commitment (force-close)"
                           [] lc.tx_type.val = "HtlcTimeout" -> "HTLC-timeout (refund)"
                           [] lc.tx_type.val = "HtlcSuccess" -> "HTLC-success (claim)"
             conf == CASE lc.confidence = "None" -> "none"
                       [] lc.confidence = "Possible" -> "possible"
                       [] lc.confidence = "HighlyLikely" -> "highly likely"
         IN  <<"Lightning:   ", type_str, " [", conf, "]">>


(***************************************************************************)
(* Transaction records submitted to the classifier                         *)
(***************************************************************************)
MaxVin == 2
MaxVout == 3

RECURSIVE Repeat(_, _)
Repeat(s, n) == IF n = 0 THEN <<>> ELSE s \o Repeat(s, n - 1)

\* joins tokens with single spaces
RECURSIVE Join(_)
Join(tokens) ==
    IF tokens = <<>> THEN <<>>
    ELSE IF Len(tokens) = 1 THEN tokens[1]
    ELSE tokens[1] \o <<" ">> \o Join(Tail(tokens))

\* witness elements
HexAB == Repeat(<<"a", "b">>, 32)
HexCD == Repeat(<<"C", "d">>, 32)
NotHex == Repeat(<<"z", "z">>, 32)
Hex63 == SubSeq(HexAB, 1, 63)
Hex66 == HexAB \o <<"a", "b">>
AlmostHex == Hex63 \o <<"g">>
Utf64 == SubSeq(HexAB, 1, 62) \o <<"U+00E9">>
Sig == <<"3", "0", "4", "5">>

WitnessNone == None
WitnessNoPreimage == Some(<< <<>>, Sig, <<"0", "0">> >>)
WitnessPreimage == Some(<<HexAB, Sig>>)
WitnessTwoPreimages == Some(<<Sig, HexCD, HexAB>>)
WitnessFalsePreimages == Some(<<NotHex, Hex63, AlmostHex, Utf64, Hex66>>)

\* witness-script disassemblies
OP_IF == <<"O", "P", "_", "I", "F">>
OP_ELSE == <<"O", "P", "_", "E", "L", "S", "E">>
OP_ENDIF == <<"O", "P", "_", "E", "N", "D", "I", "F">>
OP_DROP == <<"O", "P", "_", "D", "R", "O", "P">>
OP_DUP == <<"O", "P", "_", "D", "U", "P">>

AsmCsv ==
    Join(<<OP_IF, <<"a", "b", "c">>, OP_ELSE, <<"1", "4", "4">>, OP_CHECKSEQUENCEVERIFY,
           OP_DROP, <<"d", "e", "f">>, OP_ENDIF>>)
AsmCltv == Join(<<<<"8", "8", "6", "1", "0", "0">>, OP_CLTV, OP_DROP>>)
AsmCltvLong ==
    Join(<<OP_IF, <<"8", "8", "6", "1", "0", "0">>, OP_CHECKLOCKTIMEVERIFY, OP_DROP,
           OP_ENDIF, <<"1">>, OP_CSV>>)
AsmSubstringOnly == Join(<<OP_CSV \o <<"X">>, <<"0", "x">> \o OP_CLTV, OP_DROP>>)
AsmPlain == Join(<<OP_DUP, OP_DROP>>)

Input(cb, seq, w, asm) ==
    [is_coinbase |-> cb, sequence |-> seq, witness |-> w, inner_witnessscript_asm |-> asm]

InFinal == Input(FALSE, U32(255, 16777215), WitnessNone, None)
InLightning == Input(FALSE, U32(128, 1193046), WitnessNone, None)
InLightningMax == Input(FALSE, U32(128, 16777215), WitnessNone, None)
InLightningPreimage == Input(FALSE, U32(128, 1), WitnessPreimage, Some(AsmCsv))
InTimeout == Input(FALSE, U32(0, 0), WitnessNoPreimage, Some(AsmCltvLong))
InSuccess == Input(FALSE, U32(0, 0), WitnessTwoPreimages, Some(AsmCsv))
InFalsePreimage ==
    Input(FALSE, U32(255, 16777213), WitnessFalsePreimages, Some(AsmSubstringOnly))
InPreimageNoScript == Input(FALSE, U32(127, 16777215), WitnessPreimage, Some(AsmPlain))
InCoinbase == Input(TRUE, U32(255, 16777215), WitnessPreimage, Some(AsmCltv))

\* inputs that carry neither a witness nor a witness script
PlainInputPool == {InFinal, InLightning, InLightningMax}

InputPool ==
    {InFinal, InLightning, InLightningPreimage, InTimeout, InSuccess, InFalsePreimage,
     InPreimageNoScript, InCoinbase}

\* the inputs of the records that are classified again after an edit
PairInputPool == {InFinal, InTimeout, InSuccess, InPreimageNoScript}

Output(v, ty) == [value |-> v, scriptpubkey_type |-> ty]

OutputPool ==
    { Output(330, "v0_p2wsh"), Output(330, "v0_p2wpkh"),
      Output(100000, "v0_p2wsh"), Output(50000, "v0_p2wpkh") }

Locktimes ==
    { U32(0, 0), U32(0, 886100), U32(29, 13460735), U32(29, 13460736),
      U32(31, 16777215), U32(32, 0), U32(32, 11259375), U32(32, 16777215),
      U32(33, 0), U32(64, 0) }

SeqsUpTo(S, n) == UNION {[1..k -> S] : k \in 1..n}

Tx(lt, vin, vout) == [locktime |-> lt, vin |-> vin, vout |-> vout]

\* plain inputs with every output list
CommitmentTx(t) ==
    \E lt \in Locktimes, vin \in SeqsUpTo(PlainInputPool, MaxVin),
       vout \in SeqsUpTo(OutputPool, MaxVout) : t = Tx(lt, vin, vout)

\* every input list with a single output
HtlcTx(t) ==
    \E lt \in Locktimes, vin \in SeqsUpTo(InputPool, MaxVin),
       vout \in SeqsUpTo(OutputPool, 1) : t = Tx(lt, vin, vout)

(***************************************************************************)
(* floresta_client.rs: the state of the process before any data-source     *)
(* call                                                                    *)
(***************************************************************************)
\* AsyncOnceCell::const_new(): no value, a semaphore with one permit
OnceCellNew == [value_set |-> FALSE, permits |-> 1, closed |-> FALSE]

\* the embedded node: attempts and successes of the start routine
NodeNew == [attempts |-> 0, starts |-> 0]

\* the width of usize and whether arithmetic overflow panics, fixed by the build
Target(bits, checks) == [usize_bits |-> bits, overflow_checks |-> checks]

Targets == {Target(64, FALSE), Target(64, TRUE), Target(32, FALSE), Target(32, TRUE)}

\* the classifier commands as the model runs them: no call of the client in progress
ClientIdle ==
    /\ EMBEDDED_FLORESTA = OnceCellNew
    /\ node = NodeNew
    /\ calls = <<>>
    /\ target = Target(64, FALSE)


(***************************************************************************)
(* One classification request                                              *)
(***************************************************************************)
Pending == [pending |-> TRUE]
NoCall == [called |-> FALSE]

Init ==
    /\ CommitmentTx(tx) \/ HtlcTx(tx)
    /\ result = Pending
    /\ prev = NoCall
    /\ ClientIdle

\* main.rs: let result = classify_lightning(&tx)
Classify ==
    /\ result = Pending
    /\ result' = classify_lightning(tx)
    /\ UNCHANGED <<tx, prev>>
    /\ UNCHANGED clientVars

Next == Classify

Spec == Init /\ [][Next]_vars

(***************************************************************************)
(* Two requests: a record, and then the same record with one more          *)
(* commitment signal                                                       *)
(***************************************************************************)
InitPair ==
    /\ \E lt \in Locktimes, vin \in SeqsUpTo(PairInputPool, MaxVin),
          vout \in SeqsUpTo(OutputPool, 1) : tx = Tx(lt, vin, vout)
    /\ result = Pending
    /\ prev = NoCall
    /\ ClientIdle

\* the record with a 330-satoshi output added
WithAnchor(t, ty) == [t EXCEPT !.vout = Append(t.vout, Output(ANCHOR_VALUE, ty))]

\* the record with its locktime moved into the 0x20 range
WithLightningLocktime(t) == [t EXCEPT !.locktime = U32(32, t.locktime.lo)]

\* the record with the sequence of input i moved into the 0x80 range
WithLightningSequence(t, i) ==
    [t EXCEPT !.vin[i].sequence = U32(128, t.vin[i].sequence.lo)]

Edits(t) ==
    {WithAnchor(t, ty) : ty \in {"v0_p2wsh", "v0_p2wpkh"}}
    \cup {WithLightningLocktime(t)}
    \cup {WithLightningSequence(t, i) : i \in 1..Len(t.vin)}

\* main.rs: the next record goes to classify_lightning
Resubmit ==
    /\ result # Pending
    /\ prev = NoCall
    /\ \E t2 \in Edits(tx) :
          /\ t2 # tx
          /\ tx' = t2
    /\ prev' = [called |-> TRUE, tx |-> tx, result |-> result]
    /\ result' = Pending
    /\ UNCHANGED clientVars

NextPair == Classify \/ Resubmit

SpecPair == InitPair /\ [][NextPair]_vars

Done == result # Pending

NoCoinbase(t) == \A i \in 1..Len(t.vin) : ~t.vin[i].is_coinbase

\* the commitment signals, read off the record
LocktimeSignal(t) == t.locktime.hi = 32
SequenceSignal(t) == \E i \in 1..Len(t.vin) : t.vin[i].sequence.hi = 128
AnchorSignal(t) == \E i \in 1..Len(t.vout) : t.vout[i].value = 330

SignalSet(t) ==
    (IF LocktimeSignal(t) THEN {"locktime"} ELSE {})
    \cup (IF SequenceSignal(t) THEN {"sequence"} ELSE {})
    \cup (IF AnchorSignal(t) THEN {"anchor"} ELSE {})

Score(t) == Cardinality(SignalSet(t))

(***************************************************************************)
(* C1. Coinbase exclusion: a transaction with a coinbase input gets the    *)
(* zero classification, every field at its default, whatever else the      *)
(* record holds.                                                           *)
(***************************************************************************)
C1_ZeroClassification ==
    [tx_type |-> [some |-> FALSE],
     confidence |-> "None",
     commitment_signals |->
        [locktime_match |-> FALSE, sequence_match |-> FALSE,
         has_anchor_outputs |-> FALSE, anchor_output_count |-> 0],
     htlc_signals |->
        [locktime_value |-> [hi |-> 0, lo |-> 0], has_preimage |-> FALSE,
         preimage |-> [some |-> FALSE], script_has_cltv |-> FALSE,
         script_has_csv |-> FALSE],
     params |->
        [commitment_number |-> [some |-> FALSE], htlc_output_count |-> [some |-> FALSE],
         cltv_expiry |-> [some |-> FALSE], csv_delays |-> <<>>,
         preimage_revealed |-> FALSE, preimage |-> [some |-> FALSE]]]

C1_CoinbaseExclusion ==
    (Done /\ ~NoCoinbase(tx)) => result = C1_ZeroClassification

\* a coinbase input that is not the first, in a record whose locktime, witness
\* and witness script would otherwise all have produced signals
C1_Witness ==
    /\ Done
    /\ Len(tx.vin) = 2 /\ ~tx.vin[1].is_coinbase /\ tx.vin[2].is_coinbase
    /\ LocktimeSignal(tx) /\ AnchorSignal(tx)
    /\ tx.vin[1].witness.some /\ tx.vin[1].inner_witnessscript_asm.some
    /\ result = C1_ZeroClassification

(***************************************************************************)
(* C2. Commitment priority: with no coinbase input and at least one        *)
(* commitment signal the type is Commitment, never an HTLC type, also when *)
(* a preimage and a CLTV/CSV script are present.                           *)
(***************************************************************************)
C2_CommitmentPriority ==
    (Done /\ NoCoinbase(tx) /\ Score(tx) >= 1)
        => result.tx_type = Some("Commitment")

\* exactly one signal, with a preimage and an HTLC script on the inputs
C2_Witness ==
    /\ Done /\ NoCoinbase(tx) /\ Score(tx) = 1
    /\ result.htlc_signals.has_preimage
    /\ result.htlc_signals.script_has_csv \/ result.htlc_signals.script_has_cltv
    /\ tx.locktime = U32Zero
    /\ result.tx_type = Some("Commitment")

(***************************************************************************)
(* C3. Commitment confidence mapping: score 0 gives None, 1 Possible and  *)
(* 2 or 3 HighlyLikely; a transaction with one signal is Commitment with   *)
(* Possible, one with two or three is Commitment with HighlyLikely.        *)
(***************************************************************************)
C3_Expected(score) ==
    IF score = 0 THEN "None" ELSE IF score = 1 THEN "Possible" ELSE "HighlyLikely"

C3_ConfidenceMapping ==
    (Done /\ NoCoinbase(tx)) =>
        /\ commitment_confidence(result.commitment_signals) = C3_Expected(Score(tx))
        /\ Score(tx) >= 1 =>
              /\ result.tx_type = Some("Commitment")
              /\ result.confidence = C3_Expected(Score(tx))

C3_Witness ==
    /\ Done /\ NoCoinbase(tx) /\ Score(tx) = 2
    /\ result.tx_type = Some("Commitment")
    /\ result.confidence = "HighlyLikely"

(***************************************************************************)
(* C4. Invariant I4: Commitment implies confidence >= Possible, and a      *)
(* type of None implies confidence None, for every transaction.            *)
(***************************************************************************)
C4_TypeConfidence ==
    Done =>
        /\ result.tx_type = Some("Commitment")
              => result.confidence \in {"Possible", "HighlyLikely"}
        /\ result.tx_type = [some |-> FALSE] => result.confidence = "None"

\* an unclassified record without coinbase input that carries a preimage
C4_Witness ==
    /\ Done /\ NoCoinbase(tx)
    /\ result.tx_type = [some |-> FALSE]
    /\ result.htlc_signals.has_preimage
    /\ result.confidence = "None"

(***************************************************************************)
(* C5. HTLC decision table, for a transaction with no coinbase input and   *)
(* no commitment signal: no HTLC script gives None/None; script, preimage  *)
(* and locktime 0 give HtlcSuccess/HighlyLikely; script, no preimage and a *)
(* realistic height give HtlcTimeout/HighlyLikely; every other case with a *)
(* script gives HtlcTimeout/Possible.                                      *)
(***************************************************************************)
\* 0 < L < 500000000 and L >> 24 # 0x20, on the [hi, lo] form of L
C5_RealisticHeight(L) ==
    /\ L.hi > 0 \/ L.lo > 0
    /\ L.hi < 29 \/ (L.hi = 29 /\ L.lo < 13460736)
    /\ L.hi # 32

C5_Row(has_htlc_script, has_preimage, L) ==
    IF ~has_htlc_script THEN <<[some |-> FALSE], "None">>
    ELSE IF has_preimage /\ L = [hi |-> 0, lo |-> 0]
         THEN <<Some("HtlcSuccess"), "HighlyLikely">>
    ELSE IF ~has_preimage /\ C5_RealisticHeight(L)
         THEN <<Some("HtlcTimeout"), "HighlyLikely">>
    ELSE <<Some("HtlcTimeout"), "Possible">>

C5_HtlcDecisionTable ==
    (Done /\ NoCoinbase(tx) /\ Score(tx) = 0) =>
        <<result.tx_type, result.confidence>> =
            C5_Row(result.htlc_signals.script_has_cltv \/ result.htlc_signals.script_has_csv,
                   result.htlc_signals.has_preimage, tx.locktime)

\* the catch-all row: a script, no preimage and locktime 0
C5_Witness ==
    /\ Done /\ NoCoinbase(tx) /\ Score(tx) = 0
    /\ result.htlc_signals.script_has_cltv
    /\ ~result.htlc_signals.has_preimage
    /\ tx.locktime = U32Zero
    /\ result.tx_type = Some("HtlcTimeout") /\ result.confidence = "Possible"

(***************************************************************************)
(* C6. Commitment-number round trip: locktime (0x20 << 24) | L24, a single *)
(* input with sequence (0x80 << 24) | S24 and an anchor output give        *)
(* commitment_number = Some((S24 << 24) | L24), a 48-bit value whose upper *)
(* 24 bits are S24 and whose lower 24 bits are L24.                       *)
(***************************************************************************)
C6_CommitmentNumberRoundTrip ==
    (/\ Done /\ NoCoinbase(tx)
     /\ tx.locktime.hi = 32
     /\ Len(tx.vin) = 1 /\ tx.vin[1].sequence.hi = 128
     /\ AnchorSignal(tx))
        => /\ result.params.commitment_number.some
           /\ result.params.commitment_number.val.l2 = 0
           /\ result.params.commitment_number.val.l1 = tx.vin[1].sequence.lo
           /\ result.params.commitment_number.val.l0 = tx.locktime.lo

\* scenario S4: locktime 0x20ABCDEF, sequence 0x80123456, with an anchor
C6_Witness ==
    /\ Done /\ NoCoinbase(tx)
    /\ tx.locktime = U32(32, 11259375)
    /\ Len(tx.vin) = 1 /\ tx.vin[1].sequence = U32(128, 1193046)
    /\ AnchorSignal(tx)
    /\ result.params.commitment_number = Some([l2 |-> 0, l1 |-> 1193046, l0 |-> 11259375])

(***************************************************************************)
(* C7. First preimage wins: the preimage reported is the first             *)
(* 64-hex-character witness element in input order and, within an input,   *)
(* in stack order; of two inputs that each carry one, the earlier wins.    *)
(***************************************************************************)
C7_Is64Hex(e) == Len(e) = 64 /\ \A i \in 1..Len(e) : e[i] \in HexDigits

\* every witness element, in input order and then in stack order
RECURSIVE C7_Elements(_, _)
C7_Elements(vin, k) ==
    IF k > Len(vin) THEN <<>>
    ELSE (IF vin[k].witness.some THEN vin[k].witness.val ELSE <<>>)
         \o C7_Elements(vin, k + 1)

C7_First(t) ==
    LET elems == C7_Elements(t.vin, 1)
        hits == {j \in 1..Len(elems) : C7_Is64Hex(elems[j])}
    IN  IF hits = {} THEN [some |-> FALSE]
        ELSE Some(elems[CHOOSE j \in hits : \A k \in hits : j <= k])

C7_FirstPreimageWins ==
    (Done /\ NoCoinbase(tx)) =>
        /\ result.htlc_signals.preimage = C7_First(tx)
        /\ result.tx_type = Some("HtlcSuccess") => result.params.preimage = C7_First(tx)

(***************************************************************************)
(* C8. Opcode detection is by exact token: script_has_cltv holds iff some  *)
(* whitespace-separated token of some input's witness script equals        *)
(* OP_CHECKLOCKTIMEVERIFY or OP_CLTV, script_has_csv iff one equals        *)
(* OP_CHECKSEQUENCEVERIFY or OP_CSV; a token that only contains such a     *)
(* name does not set the flag.                                             *)
(***************************************************************************)
C8_HasToken(t, names) ==
    \E i \in 1..Len(t.vin) :
        /\ t.vin[i].inner_witnessscript_asm.some
        /\ LET tokens == SplitWhitespace(t.vin[i].inner_witnessscript_asm.val)
           IN  \E k \in 1..Len(tokens) : tokens[k] \in names

C8_ExactTokenOpcodes ==
    (Done /\ NoCoinbase(tx)) =>
        /\ result.htlc_signals.script_has_cltv
              <=> C8_HasToken(tx, {OP_CHECKLOCKTIMEVERIFY, OP_CLTV})
        /\ result.htlc_signals.script_has_csv
              <=> C8_HasToken(tx, {OP_CHECKSEQUENCEVERIFY, OP_CSV})

(***************************************************************************)
(* C9. Preimage detection: has_preimage holds iff some witness element is  *)
(* exactly 64 characters long, all of them hex digits; a 64-character      *)
(* element with a non-hex character and a hex element of another length do *)
(* not count, and the classification is what it is without them.           *)
(***************************************************************************)
C9_HexChars ==
    {"0", "1", "2", "3", "4", "5", "6", "7", "8", "9",
     "a", "b", "c", "d", "e", "f", "A", "B", "C", "D", "E", "F"}

C9_AllHex(e) == \A i \in 1..Len(e) : e[i] \in C9_HexChars

C9_IsPreimage(e) == Len(e) = 64 /\ C9_AllHex(e)

\* the two kinds of element the claim names
C9_NearMiss(e) == (Len(e) = 64 /\ ~C9_AllHex(e)) \/ (C9_AllHex(e) /\ Len(e) # 64)

RECURSIVE C9_Drop(_, _)
C9_Drop(witness, j) ==
    IF j > Len(witness) THEN <<>>
    ELSE (IF C9_NearMiss(witness[j]) THEN <<>> ELSE <<witness[j]>>)
         \o C9_Drop(witness, j + 1)

\* the record without its near-miss witness elements
C9_WithoutNearMisses(t) ==
    [t EXCEPT !.vin =
        [i \in 1..Len(t.vin) |->
            IF t.vin[i].witness.some
            THEN [t.vin[i] EXCEPT !.witness = Some(C9_Drop(t.vin[i].witness.val, 1))]
            ELSE t.vin[i]]]

C9_PreimageDetection ==
    (Done /\ NoCoinbase(tx)) =>
        /\ result.htlc_signals.has_preimage
              <=> \E i \in 1..Len(tx.vin) :
                     /\ tx.vin[i].witness.some
                     /\ \E j \in 1..Len(tx.vin[i].witness.val) :
                           C9_IsPreimage(tx.vin[i].witness.val[j])
        /\ result = classify_lightning(C9_WithoutNearMisses(tx))

\* near misses only, on a record that an accepted preimage would have made
\* an HtlcSuccess
C9_Witness ==
    /\ Done /\ NoCoinbase(tx) /\ Score(tx) = 0
    /\ tx.locktime = U32Zero
    /\ \E i \in 1..Len(tx.vin) :
          /\ tx.vin[i].witness.some
          /\ \E j \in 1..Len(tx.vin[i].witness.val) :
                /\ Len(tx.vin[i].witness.val[j]) = 64
                /\ ~C9_AllHex(tx.vin[i].witness.val[j])
    /\ ~result.htlc_signals.has_preimage
    /\ result.tx_type = Some("HtlcTimeout")

(***************************************************************************)
(* C10. Confidence monotonicity (P3): of two transactions without coinbase *)
(* input that differ only in that the second has strictly more matching    *)
(* commitment signals, the second gets a confidence at least as high.      *)
(***************************************************************************)
C10_Compared ==
    /\ Done /\ prev # NoCall
    /\ NoCoinbase(prev.tx) /\ NoCoinbase(tx)
    /\ SignalSet(prev.tx) \subseteq SignalSet(tx)
    /\ SignalSet(prev.tx) # SignalSet(tx)

C10_ConfidenceMonotone ==
    C10_Compared => Rank(result.confidence) >= Rank(prev.result.confidence)

\* C10 as amended: the confidence does not decrease, except that a first
\* transaction classified HtlcTimeout or HtlcSuccess with HighlyLikely
\* becomes a Commitment with Possible when the second has exactly one signal.
C10_Exception ==
    /\ prev.result.tx_type \in {Some("HtlcTimeout"), Some("HtlcSuccess")}
    /\ prev.result.confidence = "HighlyLikely"
    /\ Score(tx) = 1

C10_ConfidenceMonotoneUnlessHtlc ==
    C10_Compared =>
        IF C10_Exception
        THEN result.tx_type = Some("Commitment") /\ result.confidence = "Possible"
        ELSE Rank(result.confidence) >= Rank(prev.result.confidence)

\* two signals become three
C10_Witness ==
    /\ C10_Compared
    /\ Score(prev.tx) = 2 /\ Score(tx) = 3
    /\ prev.result.confidence = "HighlyLikely"
    /\ result.confidence = "HighlyLikely"

(***************************************************************************)
(* C11. Lightning locktime boundary (P4): locktime_match holds iff         *)
(* (L >> 24) = 0x20, that is iff 0x20000000 <= L <= 0x20FFFFFF; false at   *)
(* 0x1FFFFFFF, true at 0x20000000 and 0x20FFFFFF, false at 0x21000000 and  *)
(* at 0x40000000.                                                          *)
(***************************************************************************)
\* a <= b on the [hi, lo] form
C11_Le(a, b) == a.hi < b.hi \/ (a.hi = b.hi /\ a.lo <= b.lo)

C11_InRange(L) ==
    C11_Le([hi |-> 32, lo |-> 0], L) /\ C11_Le(L, [hi |-> 32, lo |-> 16777215])

C11_LocktimeBoundary ==
    (Done /\ NoCoinbase(tx)) =>
        /\ result.commitment_signals.locktime_match <=> C11_InRange(tx.locktime)
        /\ tx.locktime = [hi |-> 31, lo |-> 16777215]
              => ~result.commitment_signals.locktime_match
        /\ tx.locktime = [hi |-> 32, lo |-> 0]
              => result.commitment_signals.locktime_match
        /\ tx.locktime = [hi |-> 32, lo |-> 16777215]
              => result.commitment_signals.locktime_match
        /\ tx.locktime = [hi |-> 33, lo |-> 0]
              => ~result.commitment_signals.locktime_match
        /\ tx.locktime = [hi |-> 64, lo |-> 0]
              => ~result.commitment_signals.locktime_match

\* the first locktime above the range
C11_Witness ==
    /\ Done /\ NoCoinbase(tx)
    /\ tx.locktime = [hi |-> 33, lo |-> 0]
    /\ ~result.commitment_signals.locktime_match

(***************************************************************************)
(* C12. Commitment number source: on a Commitment result,                  *)
(* commitment_number is Some iff locktime_match and sequence_match both    *)
(* hold, and then equals ((S & 0xFFFFFF) << 24) | (locktime & 0xFFFFFF)    *)
(* for the sequence S of the first input in vin order whose upper byte is  *)
(* 0x80, whatever the earlier and later inputs are; otherwise it is None.  *)
(***************************************************************************)
C12_Matching(t) == {i \in 1..Len(t.vin) : t.vin[i].sequence.hi = 128}

C12_FirstMatching(t) == CHOOSE i \in C12_Matching(t) : \A j \in C12_Matching(t) : i <= j

C12_CommitmentNumberSource ==
    (Done /\ result.tx_type = Some("Commitment")) =>
        IF tx.locktime.hi = 32 /\ C12_Matching(tx) # {}
        THEN result.params.commitment_number =
                Some([l2 |-> 0,
                      l1 |-> tx.vin[C12_FirstMatching(tx)].sequence.lo,
                      l0 |-> tx.locktime.lo])
        ELSE result.params.commitment_number = [some |-> FALSE]

\* two inputs with different matching sequences: the first one is used
C12_Witness ==
    /\ Done /\ result.tx_type = Some("Commitment")
    /\ tx.locktime = U32(32, 11259375)
    /\ Len(tx.vin) = 2
    /\ tx.vin[1].sequence = U32(128, 1193046)
    /\ tx.vin[2].sequence = U32(128, 16777215)
    /\ result.params.commitment_number
          = Some([l2 |-> 0, l1 |-> 1193046, l0 |-> 11259375])

(***************************************************************************)
(* C13. HTLC parameter emission: HtlcSuccess has preimage_revealed and     *)
(* preimage = Some(the detected preimage); HtlcTimeout with HighlyLikely   *)
(* has cltv_expiry = Some(locktime); HtlcTimeout with Possible has         *)
(* cltv_expiry = Some(locktime) iff the locktime is a realistic height,    *)
(* and None otherwise.                                                     *)
(***************************************************************************)
C13_HtlcParams ==
    Done =>
        /\ result.tx_type = Some("HtlcSuccess") =>
              /\ result.params.preimage_revealed
              /\ result.params.preimage.some
              /\ result.params.preimage = result.htlc_signals.preimage
        /\ (result.tx_type = Some("HtlcTimeout") /\ result.confidence = "HighlyLikely") =>
              result.params.cltv_expiry = Some(tx.locktime)
        /\ (result.tx_type = Some("HtlcTimeout") /\ result.confidence = "Possible") =>
              result.params.cltv_expiry =
                 IF C5_RealisticHeight(tx.locktime)
                 THEN Some(tx.locktime) ELSE [some |-> FALSE]

\* the catch-all row with a locktime that is no realistic height
C13_Witness ==
    /\ Done
    /\ result.tx_type = Some("HtlcTimeout") /\ result.confidence = "Possible"
    /\ tx.locktime = U32(29, 13460736)
    /\ result.params.cltv_expiry = [some |-> FALSE]

(***************************************************************************)
(* Requests whose witness scripts put CSV opcodes after every kind of      *)
(* token                                                                   *)
(***************************************************************************)
N144 == <<"1", "4", "4">>

AsmCsvAtStart == Join(<<OP_CSV, N144>>)
AsmCsvDuplicates == Join(<<N144, OP_CSV, N144, OP_CHECKSEQUENCEVERIFY>>)
AsmCsvRange ==
    Join(<<<<"7", "0", "0", "0", "0">>, OP_CSV, <<"6", "5", "5", "3", "5">>, OP_CSV,
           <<"6", "5", "5", "3", "6">>, OP_CSV, <<"0">>, OP_CSV,
           <<"4", "2", "9", "4", "9", "6", "7", "2", "9", "7">>, OP_CHECKSEQUENCEVERIFY>>)
AsmCsvNonDecimal ==
    Join(<<<<"0", "x", "9", "0">>, OP_CSV, <<"a", "b", "c">>, OP_CSV, <<"-", "1">>,
           OP_CSV, OP_CSV, <<"1", "0", "a">>, OP_CHECKSEQUENCEVERIFY, <<"+">>, OP_CSV>>)
AsmCsvLeadingZeros ==
    Join(<<<<"0", "0", "7">>, OP_CSV, <<"+", "5">>, OP_CSV,
           <<"0", "0", "0", "0", "0", "0", "1", "0">>, OP_CSV>>)
AsmCsvWhitespace ==
    <<" ">> \o N144 \o <<"\t">> \o OP_CSV \o <<"\n", "\n", " ">> \o <<"1", "0">>
    \o <<" ", " ">> \o OP_CHECKSEQUENCEVERIFY \o <<" ">>
AsmCsvInsideToken ==
    Join(<<N144, OP_CSV \o <<"X">>, <<"5">>, <<"x">> \o OP_CHECKSEQUENCEVERIFY>>)

CsvAsms ==
    {AsmCsvAtStart, AsmCsvDuplicates, AsmCsvRange, AsmCsvNonDecimal, AsmCsvLeadingZeros,
     AsmCsvWhitespace, AsmCsvInsideToken, AsmCltvLong, AsmPlain}

CsvInputPool ==
    {Input(FALSE, U32(0, 0), WitnessNone, Some(asm)) : asm \in CsvAsms}
    \cup {InFinal, InSuccess}

CsvLocktimes == {U32(0, 0), U32(0, 886100), U32(29, 13460736), U32(32, 11259375)}

InitCsv ==
    /\ \E lt \in CsvLocktimes, vin \in SeqsUpTo(CsvInputPool, MaxVin),
          vout \in SeqsUpTo(OutputPool, 1) : tx = Tx(lt, vin, vout)
    /\ result = Pending
    /\ prev = NoCall
    /\ ClientIdle

SpecCsv == InitCsv /\ [][Next]_vars

(***************************************************************************)
(* C14. CSV delay extraction: for every transaction classified Commitment, *)
(* HtlcTimeout or HtlcSuccess, params.csv_delays is the sequence obtained  *)
(* by visiting the inputs in vin order and the whitespace-separated tokens *)
(* of each witness-script asm left to right, appending for every token     *)
(* equal to OP_CHECKSEQUENCEVERIFY or OP_CSV at position i > 0 the token   *)
(* at i-1 when it is a decimal integer in 0..65535; a CSV token at         *)
(* position 0 or after another kind of token appends nothing, and equal    *)
(* delays are kept as duplicates in encounter order.                       *)
(***************************************************************************)
\* the increasing enumeration of a finite set of integers
RECURSIVE C14_Sorted(_)
C14_Sorted(S) ==
    IF S = {} THEN <<>>
    ELSE LET m == CHOOSE x \in S : \A y \in S : x <= y
         IN  <<m>> \o C14_Sorted(S \ {m})

\* the maximal runs of non-whitespace characters of s, left to right
C14_Tokens(s) ==
    LET blank(i) == i < 1 \/ i > Len(s) \/ s[i] \in {" ", "\t", "\n"}
        starts == {a \in 1..Len(s) : ~blank(a) /\ blank(a - 1)}
        end(a) == CHOOSE b \in a..Len(s) :
                     /\ \A k \in a..b : ~blank(k)
                     /\ blank(b + 1)
        order == C14_Sorted(starts)
    IN  [n \in 1..Len(order) |-> [k \in 1..(end(order[n]) - order[n] + 1) |->
                                     s[order[n] + k - 1]]]

C14_DigitValue(c) ==
    CASE c = "0" -> 0 [] c = "1" -> 1 [] c = "2" -> 2 [] c = "3" -> 3 [] c = "4" -> 4
      [] c = "5" -> 5 [] c = "6" -> 6 [] c = "7" -> 7 [] c = "8" -> 8 [] c = "9" -> 9
      [] OTHER -> -1

RECURSIVE C14_Pow10(_)
C14_Pow10(n) == IF n = 0 THEN 1 ELSE 10 * C14_Pow10(n - 1)

\* the token as a decimal integer in 0..65535, or -1 when it is none
C14_Decimal(token) ==
    LET unsigned == IF Len(token) > 1 /\ token[1] = "+"
                    THEN [k \in 1..(Len(token) - 1) |-> token[k + 1]] ELSE token
        n == Len(unsigned)
        zeros == {k \in 0..n : \A m \in 1..k : unsigned[m] = "0"}
        lead == CHOOSE k \in zeros : \A m \in zeros : m <= k
        value == LET term[k \in 0..n] ==
                        IF k = 0 THEN 0
                        ELSE (IF k <= lead THEN 0
                              ELSE C14_DigitValue(unsigned[k]) * C14_Pow10(n - k))
                            + term[k - 1]
                 IN  term[n]
    IN  IF n = 0 \/ \E k \in 1..n : C14_DigitValue(unsigned[k]) < 0 THEN -1
        ELSE IF n - lead > 5 THEN -1
        ELSE IF value > 65535 THEN -1
        ELSE value

C14_DelaysOfAsm(asm) ==
    LET tokens == C14_Tokens(asm)
        hits == {i \in 2..Len(tokens) :
                    /\ tokens[i] \in {OP_CHECKSEQUENCEVERIFY, OP_CSV}
                    /\ C14_Decimal(tokens[i - 1]) >= 0}
        order == C14_Sorted(hits)
    IN  [n \in 1..Len(order) |-> C14_Decimal(tokens[order[n] - 1])]

C14_Delays(vin) ==
    LET upTo[k \in 0..Len(vin)] ==
            IF k = 0 THEN <<>>
            ELSE upTo[k - 1] \o
                 (IF vin[k].inner_witnessscript_asm.some
                  THEN C14_DelaysOfAsm(vin[k].inner_witnessscript_asm.val)
                  ELSE <<>>)
    IN  upTo[Len(vin)]

RECURSIVE C15_CountFrom(_, _)
C15_CountFrom(vout, i) ==
    IF i > Len(vout) THEN 0
    ELSE (IF vout[i].scriptpubkey_type = "v0_p2wsh" /\ vout[i].value # 330 THEN 1 ELSE 0)
         + C15_CountFrom(vout, i + 1)

C15_Max(a, b) == IF a >= b THEN a ELSE b

C15_HtlcOutputCount ==
    (Done /\ result.tx_type = Some("Commitment")) =>
        result.params.htlc_output_count =
            [some |-> TRUE, val |-> C15_Max(0, C15_CountFrom(tx.vout, 1) - 1)]

\* a commitment whose only P2WSH output is an anchor: n = 0
C15_Witness ==
    /\ Done
    /\ result.tx_type = Some("Commitment")
    /\ \E i \in 1..Len(tx.vout) : tx.vout[i] = Output(330, "v0_p2wsh")
    /\ \E i \in 1..Len(tx.vout) : tx.vout[i] = Output(50000, "v0_p2wpkh")
    /\ C15_CountFrom(tx.vout, 1) = 0
    /\ result.params.htlc_output_count = [some |-> TRUE, val |-> 0]

(***************************************************************************)
(* C16. Anchor counting: for every transaction with no coinbase input,     *)
(* commitment_signals.anchor_output_count is the number of outputs of      *)
(* exactly 330 satoshis, whatever their script type, and                   *)
(* has_anchor_outputs is true iff that count is greater than 0.            *)
(***************************************************************************)
RECURSIVE C16_CountFrom(_, _)
C16_CountFrom(vout, i) ==
    IF i > Len(vout) THEN 0
    ELSE (IF vout[i].value = 330 THEN 1 ELSE 0) + C16_CountFrom(vout, i + 1)

C16_AnchorCounting ==
    (Done /\ NoCoinbase(tx)) =>
        /\ result.commitment_signals.anchor_output_count = C16_CountFrom(tx.vout, 1)
        /\ result.commitment_signals.has_anchor_outputs <=> C16_CountFrom(tx.vout, 1) > 0

\* one anchor of each script type
C16_Witness ==
    /\ Done /\ NoCoinbase(tx)
    /\ Len(tx.vout) = 3
    /\ tx.vout[1] = Output(330, "v0_p2wpkh")
    /\ tx.vout[2] = Output(100000, "v0_p2wsh")
    /\ tx.vout[3] = Output(330, "v0_p2wsh")
    /\ result.commitment_signals.anchor_output_count = 2
    /\ result.commitment_signals.has_anchor_outputs

(***************************************************************************)
(* C17. Anchor count range: in every classification returned by            *)
(* classify_lightning, commitment_signals.anchor_output_count is 0, 1 or   *)
(* 2.                                                                      *)
(***************************************************************************)
C17_AnchorCountRange ==
    Done => result.commitment_signals.anchor_output_count \in {0, 1, 2}

(***************************************************************************)
(* C18. Locktime reported verbatim: for every transaction with no coinbase *)
(* input, htlc_signals.locktime_value equals tx.locktime, whichever        *)
(* tx_type is returned, including locktimes in the 0x20 range and those of *)
(* 500000000 and above.                                                    *)
(***************************************************************************)
C18_LocktimeVerbatim ==
    (Done /\ NoCoinbase(tx)) => result.htlc_signals.locktime_value = tx.locktime

\* an unclassified record with a locktime above 500000000
C18_Witness ==
    /\ Done /\ NoCoinbase(tx)
    /\ result.tx_type = [some |-> FALSE]
    /\ tx.locktime = [hi |-> 64, lo |-> 0]
    /\ result.htlc_signals.locktime_value = [hi |-> 64, lo |-> 0]

(***************************************************************************)
(* C20. Type and confidence agree for every type: tx_type is None iff      *)
(* confidence is None; every HtlcTimeout result has confidence Possible or *)
(* HighlyLikely and every HtlcSuccess result has HighlyLikely, so the      *)
(* printed line of an identified transaction never carries the label       *)
(* "none".                                                                 *)
(***************************************************************************)
C20_TypeConfidenceAgree ==
    Done =>
        /\ (result.tx_type = [some |-> FALSE]) <=> (result.confidence = "None")
        /\ result.tx_type = Some("HtlcTimeout")
              => result.confidence \in {"Possible", "HighlyLikely"}
        /\ result.tx_type = Some("HtlcSuccess") => result.confidence = "HighlyLikely"
        /\ result.tx_type # [some |-> FALSE]
              => \A k \in 1..Len(lightning_line(result)) : lightning_line(result)[k] # "none"

\* the catch-all HTLC row, printed with the label "possible"
C20_Witness ==
    /\ Done
    /\ result.tx_type = Some("HtlcTimeout")
    /\ result.confidence = "Possible"
    /\ lightning_line(result) =
          <<"Lightning:   ", "HTLC-timeout (refund)", " [", "possible", "]">>

(***************************************************************************)
(* floresta_client.rs: records of the node's RPC and their mapping         *)
(***************************************************************************)
Pow2_24 == 16777216

\* chars().all(|c| c == '0')
all_zero(s) == \A i \in 1..Len(s) : s[i] = "0"

\* a variant that hands the script-sig disassembly on as the witness script
map_raw_tx_to_api_with_asm(raw) ==
    [txid |-> raw.txid,
     locktime |-> raw.locktime,
     vin |-> [i \in 1..Len(raw.vin) |->
                 [is_coinbase |-> all_zero(raw.vin[i].txid),
                  sequence |-> raw.vin[i].sequence,
                  witness |-> Some(raw.vin[i].witness),
                  inner_redeemscript_asm |-> None,
                  inner_witnessscript_asm |-> Some(raw.vin[i].script_sig.asm)]],
     vout |-> [i \in 1..Len(raw.vout) |->
                  [value |-> raw.vout[i].value,
                   scriptpubkey_type |-> raw.vout[i].script_pub_key.type_]]]

\* the fields of ApiTransaction that the classifier reads, and the txid
map_raw_tx_to_api(raw) ==
    [txid |-> raw.txid,
     locktime |-> raw.locktime,
     vin |-> [i \in 1..Len(raw.vin) |->
                 [is_coinbase |-> all_zero(raw.vin[i].txid),
                  sequence |-> raw.vin[i].sequence,
                  witness |-> Some(raw.vin[i].witness),
                  inner_redeemscript_asm |-> None,
                  inner_witnessscript_asm |-> None]],
     vout |-> [i \in 1..Len(raw.vout) |->
                  [value |-> raw.vout[i].value,
                   scriptpubkey_type |-> raw.vout[i].script_pub_key.type_]]]

RawVin(txid, seq, w, asm) ==
    [txid |-> txid, sequence |-> seq, witness |-> w, script_sig |-> [asm |-> asm]]

RawVout(v, ty) == [value |-> v, script_pub_key |-> [type_ |-> ty]]

RawTx(txid, lt, vin, vout) == [txid |-> txid, locktime |-> lt, vin |-> vin, vout |-> vout]

(***************************************************************************)
(* floresta_client.rs: the data-source calls                               *)
(***************************************************************************)
MaxCalls == 2

Methods ==
    {"get_transaction", "get_transaction_hex", "get_block_txs", "get_block_tip_height",
     "get_block_hash", "get_all_block_txs"}

\* the methods that parse an argument between the start and the request
ParsingMethods == Methods \ {"get_block_tip_height"}

Ok(v) == [ok |-> TRUE, val |-> v]
Err(e) == [ok |-> FALSE, err |-> e]
NotReturned == [returned |-> FALSE]

\* the transaction a txid of a block names, as the node reports it
RawTxOf(txid) == RawTx(txid, U32(0, txid), <<>>, <<>>)

NoFailure == [at |-> 0, kind |-> "none"]

\* the node's answer to getblock, and the transaction of the block, if any, whose
\* txid, fetch or decoding fails
Block(res, txids, fail) == [res |-> res, tx |-> txids, fail |-> fail]

\* the for loop over verbose.tx: the first ? that fires returns its error, and
\* otherwise every transaction is pushed in the order of the block
FetchAll(block) ==
    IF block.fail.at \in 1..Len(block.tx) THEN Err(block.fail.kind)
    ELSE Ok([i \in 1..Len(block.tx) |-> map_raw_tx_to_api(RawTxOf(block.tx[i]))])

\* client.get_block(hash, Some(1)) and the match on GetBlockRes
verbose_block(block) ==
    CASE block.res = "Err" -> Err("get_block")
      [] block.res = "Zero" -> Err("unexpected non-verbose block response")
      [] OTHER -> FetchAll(block)

\* start + 25 on usize: [hi, lo] of the sum, or a panic where the build checks
\* overflow; hi reaches 256 only on a 64-bit usize
start_plus_25(start, tgt) ==
    LET lo == (start.lo + 25) % Pow2_24
        hi == start.hi + (start.lo + 25) \div Pow2_24
    IN  IF tgt.usize_bits = 32 /\ hi >= 256
        THEN (IF tgt.overflow_checks THEN [panic |-> TRUE]
              ELSE [panic |-> FALSE, hi |-> hi % 256, lo |-> lo])
        ELSE [panic |-> FALSE, hi |-> hi, lo |-> lo]

\* (start + 25).min(out.len())
min_len(sum, len) == IF sum.hi > 0 \/ sum.lo >= len THEN len ELSE sum.lo

\* out.get(start..end).unwrap_or(&[]).to_vec(), for end <= out.len()
get_range(out, start, end) ==
    IF start.hi = 0 /\ start.lo <= end THEN SubSeq(out, start.lo + 1, end) ELSE <<>>

\* the blocking closure of get_block_txs and the two ? on its join
get_block_txs(block, start_index, tgt) ==
    LET fetched == verbose_block(block)
        sum == start_plus_25(start_index, tgt)
    IN  IF ~fetched.ok THEN fetched
        ELSE IF sum.panic THEN Err("JoinError: attempt to add with overflow")
        ELSE Ok(get_range(fetched.val, start_index, min_len(sum, Len(fetched.val))))

\* what the request of a call can answer
Answers(call, tgt) ==
    CASE call.method = "get_block_txs" ->
             {get_block_txs(call.args.block, call.args.start_index, tgt)}
      [] call.method = "get_all_block_txs" ->
             {verbose_block(call.args.block), Err("get_block_hash")}
      [] OTHER -> {Ok(call.method), Err(call.method)}

Call(method, args) ==
    [method |-> method, args |-> args, pc |-> "called", rpc |-> FALSE, ret |-> NotReturned]

BlockArgs(block, start_index) == [block |-> block, start_index |-> start_index]

\* the calls that run side by side; those that read a block read one short block
ClientCalls ==
    {Call(m, IF m \in {"get_block_txs", "get_all_block_txs"}
             THEN BlockArgs(Block("One", <<3, 1, 2>>, NoFailure), U32(0, 1))
             ELSE [none |-> TRUE]) : m \in Methods}

InitClient ==
    /\ tx = [fetched |-> FALSE]
    /\ result = Pending
    /\ prev = NoCall
    /\ EMBEDDED_FLORESTA = OnceCellNew
    /\ node = NodeNew
    /\ calls \in SeqsUpTo(ClientCalls, MaxCalls)
    /\ target \in Targets

\* get_or_try_init: the cell is read first
Ensure(c) ==
    /\ calls[c].pc = "called"
    /\ calls' = [calls EXCEPT ![c].pc = IF EMBEDDED_FLORESTA.value_set
                                        THEN "ready" ELSE "acquire"]
    /\ UNCHANGED <<tx, result, prev, EMBEDDED_FLORESTA, node, target>>

\* a variant whose semaphore hands out a permit to every call
Acquire_without_permit(c) ==
    /\ calls[c].pc = "acquire"
    /\ IF EMBEDDED_FLORESTA.closed
       THEN /\ calls' = [calls EXCEPT ![c].pc = "ready"]
            /\ UNCHANGED <<EMBEDDED_FLORESTA, node>>
       ELSE /\ calls' = [calls EXCEPT ![c].pc = "init"]
            /\ EMBEDDED_FLORESTA' = [EMBEDDED_FLORESTA EXCEPT !.permits = 0]
            /\ node' = [node EXCEPT !.attempts = @ + 1]
    /\ UNCHANGED <<tx, result, prev, target>>

\* get_or_try_init: semaphore.acquire().await; a closed semaphore means the value
\* is set, a free permit lets the call run the closure, and otherwise it waits
Acquire(c) ==
    /\ calls[c].pc = "acquire"
    /\ EMBEDDED_FLORESTA.closed \/ EMBEDDED_FLORESTA.permits > 0
    /\ IF EMBEDDED_FLORESTA.closed
       THEN /\ calls' = [calls EXCEPT ![c].pc = "ready"]
            /\ UNCHANGED <<EMBEDDED_FLORESTA, node>>
       ELSE /\ calls' = [calls EXCEPT ![c].pc = "init"]
            /\ EMBEDDED_FLORESTA' = [EMBEDDED_FLORESTA EXCEPT !.permits = 0]
            /\ node' = [node EXCEPT !.attempts = @ + 1]
    /\ UNCHANGED <<tx, result, prev, target>>

\* the closure returns Ok(()): set_value stores it and closes the semaphore
StartOk(c) ==
    /\ calls[c].pc = "init"
    /\ node' = [node EXCEPT !.starts = @ + 1]
    /\ EMBEDDED_FLORESTA' = [EMBEDDED_FLORESTA EXCEPT !.value_set = TRUE, !.closed = TRUE]
    /\ calls' = [calls EXCEPT ![c].pc = "ready"]
    /\ UNCHANGED <<tx, result, prev, target>>

\* create_dir_all or node.start() fails: the permit is dropped and ? returns the error
StartFail(c) ==
    /\ calls[c].pc = "init"
    /\ EMBEDDED_FLORESTA' = [EMBEDDED_FLORESTA EXCEPT !.permits = 1]
    /\ calls' = [calls EXCEPT ![c].pc = "returned", ![c].ret = Err("start")]
    /\ UNCHANGED <<tx, result, prev, node, target>>

\* txid.parse()?, hash.parse()? or u32::try_from(height)? returns the error
ParseFail(c) ==
    /\ calls[c].pc = "ready"
    /\ calls[c].method \in ParsingMethods
    /\ calls' = [calls EXCEPT ![c].pc = "returned", ![c].ret = Err("parse")]
    /\ UNCHANGED <<tx, result, prev, EMBEDDED_FLORESTA, node, target>>

\* spawn_blocking(..).await??: the request goes out and the call returns
Rpc(c) ==
    /\ calls[c].pc = "ready"
    /\ \E answer \in Answers(calls[c], target) :
          calls' = [calls EXCEPT ![c].pc = "returned", ![c].rpc = TRUE, ![c].ret = answer]
    /\ UNCHANGED <<tx, result, prev, EMBEDDED_FLORESTA, node, target>>

NextClient ==
    \E c \in DOMAIN calls :
        Ensure(c) \/ Acquire(c) \/ StartOk(c) \/ StartFail(c) \/ ParseFail(c) \/ Rpc(c)

SpecClient == InitClient /\ [][NextClient]_vars

(***************************************************************************)
(* C21. Embedded-node once-initialisation: under any interleaving of       *)
(* concurrent data-source calls the start routine never runs in two calls  *)
(* at the same time and succeeds at most once; no call issues its RPC      *)
(* request before a start has succeeded; and when a start attempt fails,   *)
(* that call returns the error without issuing an RPC and the cell stays   *)
(* uninitialised, with its permit free for the next call's attempt.        *)
(***************************************************************************)
C21_Starting == {c \in DOMAIN calls : calls[c].pc = "init"}

C21_State ==
    /\ Cardinality(C21_Starting) <= 1
    /\ node.starts <= 1
    /\ \A c \in DOMAIN calls : calls[c].rpc => node.starts = 1
    /\ \A c \in DOMAIN calls :
          calls[c].ret = [ok |-> FALSE, err |-> "start"]
             => calls[c].pc = "returned" /\ ~calls[c].rpc

\* the step in which the start routine of call c fails
C21_FailedStart(c) ==
    /\ calls[c].pc = "init"
    /\ calls'[c].pc = "returned"

C21_FailStep ==
    \A c \in DOMAIN calls :
        C21_FailedStart(c) =>
            /\ calls'[c].ret = [ok |-> FALSE, err |-> "start"]
            /\ ~calls'[c].rpc
            /\ ~EMBEDDED_FLORESTA'.value_set
            /\ ~EMBEDDED_FLORESTA'.closed
            /\ EMBEDDED_FLORESTA'.permits = 1
            /\ node'.starts = node.starts

C21_OnceInitialisation == [](C21_State) /\ [][C21_FailStep]_vars

\* the first call's start failed, the second call started the node and sent its request
C21_Witness ==
    /\ Len(calls) = 2
    /\ calls[1].ret = [ok |-> FALSE, err |-> "start"] /\ ~calls[1].rpc
    /\ calls[2].pc = "returned" /\ calls[2].rpc
    /\ node.attempts = 2 /\ node.starts = 1
    /\ EMBEDDED_FLORESTA.value_set

(***************************************************************************)
(* A record fetched through FlorestaClient::get_transaction and then       *)
(* classified                                                              *)
(***************************************************************************)
TxidOne == <<"0", "0", "0", "1">>
TxidSpent == <<"a", "b", "1", "2">>

RawVinPool ==
    { RawVin(TxidSpent, U32(255, 16777215), <<>>, <<>>),
      RawVin(TxidSpent, U32(128, 1193046), <<Sig>>, <<>>),
      RawVin(TxidSpent, U32(0, 0), <<HexAB, Sig>>, AsmCsv),
      RawVin(TxidOne, U32(0, 0), <<Sig, HexCD, HexAB>>, AsmCltvLong),
      RawVin(TxidSpent, U32(0, 0), << <<>>, Sig, <<"0", "0">> >>, AsmCltvLong),
      RawVin(TxidOne, U32(128, 1), <<HexAB, Sig>>, AsmCsv),
      RawVin(<<"0", "0", "0", "0">>, U32(255, 16777215), <<HexAB>>, AsmCltv),
      RawVin(<<>>, U32(0, 0), <<HexAB>>, AsmCsv) }

InitMapped ==
    /\ \E lt \in Locktimes, vin \in SeqsUpTo(RawVinPool, MaxVin),
          vout \in SeqsUpTo({RawVout(o.value, o.scriptpubkey_type) : o \in OutputPool}, 1) :
          tx = map_raw_tx_to_api(RawTx(TxidSpent, lt, vin, vout))
    /\ result = Pending
    /\ prev = NoCall
    /\ ClientIdle

SpecMapped == InitMapped /\ [][Next]_vars

(***************************************************************************)
(* C22. Floresta-sourced records never yield HTLC results: every record    *)
(* that map_raw_tx_to_api produces has inner_witnessscript_asm and         *)
(* inner_redeemscript_asm absent on every input, so classify_lightning on  *)
(* it returns script_has_cltv = false, script_has_csv = false, empty       *)
(* csv_delays and a tx_type that is None or Commitment, whatever the       *)
(* witness stacks contain.                                                 *)
(***************************************************************************)
C22_NoHtlcFromFloresta ==
    /\ \A i \in 1..Len(tx.vin) :
          /\ tx.vin[i].inner_witnessscript_asm = [some |-> FALSE]
          /\ tx.vin[i].inner_redeemscript_asm = [some |-> FALSE]
    /\ Done =>
          /\ ~result.htlc_signals.script_has_cltv
          /\ ~result.htlc_signals.script_has_csv
          /\ result.params.csv_delays = <<>>
          /\ result.tx_type \in {[some |-> FALSE], Some("Commitment")}

\* a spend that reveals a preimage with locktime 0 and stays unclassified
C22_Witness ==
    /\ Done
    /\ tx.locktime = [hi |-> 0, lo |-> 0]
    /\ \E i \in 1..Len(tx.vin) :
          tx.vin[i].witness = Some(<<HexAB, Sig>>) /\ ~tx.vin[i].is_coinbase
    /\ result.htlc_signals.has_preimage
    /\ result.tx_type = [some |-> FALSE]

(***************************************************************************)
(* One get_block_txs call, over blocks around the page size and start      *)
(* indexes up to u32::MAX                                                  *)
(***************************************************************************)
\* n txids in an order that is not the numeric one
Txids(n) == [i \in 1..n |-> ((i * 7) % 53) + 100]

BlockLens == {0, 1, 24, 25, 26, 27, 50, 51}

\* whole blocks, blocks that fail at the first, 26th or last transaction in one of
\* the three ways of the loop, a non-verbose answer and a failed getblock
BlockPool ==
    {Block("One", Txids(n), NoFailure) : n \in BlockLens}
    \cup UNION {{Block("One", Txids(n), [at |-> p, kind |-> k]) :
                    p \in {q \in {1, 26, n} : 1 <= q /\ q <= n},
                    k \in {"txid_str.parse", "get_transaction", "from_value"}} :
                 n \in BlockLens}
    \cup {Block("Zero", <<>>, NoFailure), Block("Err", <<>>, NoFailure)}

\* 0xFFFFFFE6 + 25 = u32::MAX; 0xFFFFFFE7 + 25 = 2^32
StartIndexes ==
    {U32(0, n) : n \in {0, 1, 2, 24, 25, 26, 27, 50, 51, 52}}
    \cup {U32(1, 0), U32(255, 16777190), U32(255, 16777191), U32(255, 16777215)}

InitPaging ==
    /\ tx = [fetched |-> FALSE]
    /\ result = Pending
    /\ prev = NoCall
    /\ EMBEDDED_FLORESTA = OnceCellNew
    /\ node = NodeNew
    /\ \E block \in BlockPool, start_index \in StartIndexes :
          calls = <<Call("get_block_txs", BlockArgs(block, start_index))>>
    /\ target \in Targets

SpecPaging == InitPaging /\ [][NextClient]_vars

(***************************************************************************)
(* C23. Block paging window: for a block whose n transactions are all      *)
(* fetched successfully and every start_index, get_block_txs returns       *)
(* exactly the transactions at positions                                   *)
(* start_index .. min(start_index + 25, n) - 1 in block order, returns an  *)
(* empty list without failing when start_index >= n, and returns an error  *)
(* with no partial list when the fetch or decoding of any transaction of   *)
(* the block fails.                                                        *)
(***************************************************************************)
C23_Min(a, b) == IF a <= b THEN a ELSE b

\* the txids at positions start .. min(start + 25, n) - 1, counted from 0
C23_Window(txids, start) ==
    LET n == Len(txids)
    IN  IF start.hi > 0 \/ start.lo >= n THEN <<>>
        ELSE [k \in 1..(C23_Min(start.lo + 25, n) - start.lo) |-> txids[start.lo + k]]

\* the call sent its request to a node that answers getblock with a verbose block
C23_Answered(call) ==
    /\ call.method = "get_block_txs"
    /\ call.pc = "returned" /\ call.rpc
    /\ call.args.block.res = "One"

C23_PagingWindow ==
    \A c \in DOMAIN calls :
        C23_Answered(calls[c]) =>
            IF calls[c].args.block.fail.at = 0
            THEN /\ calls[c].ret.ok
                 /\ [k \in 1..Len(calls[c].ret.val) |-> calls[c].ret.val[k].txid]
                       = C23_Window(calls[c].args.block.tx, calls[c].args.start_index)
            ELSE ~calls[c].ret.ok

\* the same statement for the builds on which start + 25 cannot exceed usize
C23_PagingWindowWithoutOverflow ==
    (target.usize_bits = 64 \/ ~target.overflow_checks) => C23_PagingWindow

=============================================================================
